---- MODULE Spec2Model ----
(***************************************************************************)
(* Model of the turf-booking backend: the game join/leave/approval state   *)
(* machine (src/src/types/index.ts, the SQLite GameModel with              *)
(* record-shaped join requests; src/src/models/GameSupabase.ts has the     *)
(* same logic), the games route (src/src/routes/games.ts) and the booking  *)
(* availability engine (src/unnamed/part_007 for SQLite,                   *)
(* src/unnamed/part_006 for Supabase) with the bookings route              *)
(* (src/setup-supabase-data.sql, lines 22-283).                            *)
(***************************************************************************)
EXTENDS Integers, Sequences, FiniteSets, TLC

VARIABLES game, prev, last, bookings, inflight

vars == <<game, prev, last, bookings, inflight>>

(***************************************************************************)
(* Bounds of the model.                                                    *)
(***************************************************************************)
\* largest maxPlayers a created game gets (gameCreateSchema allows 2..50)
MaxCapacity == 3
\* number of bookings the bookings table may hold
MaxBookings == 2
\* number of stored bookings the availability functions are applied to
MaxStored == 1

\* authenticated users; "h" creates the game
Users == {"h", "a", "b"}
Host == "h"
Roles == {"user", "admin"}

\* smallest maxPlayers gameCreateSchema accepts
MinPlayers == 2

Statuses == {"open", "full", "in_progress", "completed", "cancelled"}

(***************************************************************************)
(* Helpers for the JavaScript array operations the models use.             *)
(***************************************************************************)
\* Array.prototype.includes on confirmedPlayers
Includes(s, x) == \E i \in 1..Len(s) : s[i] = x

\* joinRequests.some(req => req.userId === userId)
HasRequest(reqs, userId) == \E i \in 1..Len(reqs) : reqs[i].userId = userId

\* joinRequests.findIndex(req => req.userId === userId), 0 for -1
FindIndex(reqs, userId) ==
  IF HasRequest(reqs, userId)
  THEN CHOOSE i \in 1..Len(reqs) :
         /\ reqs[i].userId = userId
         /\ \A j \in 1..(i - 1) : reqs[j].userId # userId
  ELSE 0

\* joinRequests.splice(index, 1)
Splice(s, index) ==
  [i \in 1..(Len(s) - 1) |-> IF i < index THEN s[i] ELSE s[i + 1]]

\* confirmedPlayers.filter(id => id !== userId)
FilterPlayers(s, userId) == SelectSeq(s, LAMBDA id : id # userId)

\* joinRequests.filter(req => req.userId !== userId)
FilterRequests(reqs, userId) == SelectSeq(reqs, LAMBDA req : req.userId # userId)

\* the join request record (requestedAt, a timestamp, is left out)
NewRequest(userId) == [userId |-> userId, status |-> "pending"]

Fail(message) == [success |-> FALSE, message |-> message]

Ok(message, updates) == [success |-> TRUE, message |-> message, updates |-> updates]

(***************************************************************************)
(* GameModel.update: writes the fields present (and truthy, where the code *)
(* tests truthiness) in the updates and keeps the rest of the row.         *)
(***************************************************************************)
GameUpdateWithoutCount(row, updates) ==
  [hostId |-> row.hostId,
   currentPlayers |-> row.currentPlayers,
   maxPlayers |->
     IF "maxPlayers" \in DOMAIN updates /\ updates.maxPlayers # 0
     THEN updates.maxPlayers ELSE row.maxPlayers,
   isPrivate |->
     IF "isPrivate" \in DOMAIN updates THEN updates.isPrivate ELSE row.isPrivate,
   joinRequests |->
     IF "joinRequests" \in DOMAIN updates THEN updates.joinRequests
     ELSE row.joinRequests,
   confirmedPlayers |->
     IF "confirmedPlayers" \in DOMAIN updates THEN updates.confirmedPlayers
     ELSE row.confirmedPlayers,
   status |->
     IF "status" \in DOMAIN updates /\ updates.status # ""
     THEN updates.status ELSE row.status]

GameUpdate(row, updates) ==
  [hostId |-> row.hostId,
   currentPlayers |->
     IF "currentPlayers" \in DOMAIN updates THEN updates.currentPlayers
     ELSE row.currentPlayers,
   maxPlayers |->
     IF "maxPlayers" \in DOMAIN updates /\ updates.maxPlayers # 0
     THEN updates.maxPlayers ELSE row.maxPlayers,
   isPrivate |->
     IF "isPrivate" \in DOMAIN updates THEN updates.isPrivate ELSE row.isPrivate,
   joinRequests |->
     IF "joinRequests" \in DOMAIN updates THEN updates.joinRequests
     ELSE row.joinRequests,
   confirmedPlayers |->
     IF "confirmedPlayers" \in DOMAIN updates THEN updates.confirmedPlayers
     ELSE row.confirmedPlayers,
   status |->
     IF "status" \in DOMAIN updates /\ updates.status # ""
     THEN updates.status ELSE row.status]

(***************************************************************************)
(* GameModel.joinGame on a loaded row: the result and the updates it       *)
(* passes to update.                                                       *)
(***************************************************************************)
JoinCapacityReachedOffByOne(g) == g.currentPlayers > g.maxPlayers

JoinCapacityReachedIgnoringHost(g) == Len(g.confirmedPlayers) >= g.maxPlayers

JoinCapacityReached(g) == g.currentPlayers >= g.maxPlayers

JoinNewStatus(g, updatedConfirmedPlayers) ==
  IF Len(updatedConfirmedPlayers) >= g.maxPlayers THEN "full" ELSE "open"

JoinPrivateUpdatesCountingRequester(g, userId) ==
  [joinRequests |-> Append(g.joinRequests, NewRequest(userId)),
   currentPlayers |-> g.currentPlayers + 1]

JoinPrivateUpdates(g, userId) ==
  [joinRequests |-> Append(g.joinRequests, NewRequest(userId))]

joinGameMembershipFirst(g, userId) ==
  IF g.status # "open" THEN Fail("Game is not open for joining")
  ELSE IF Includes(g.confirmedPlayers, userId) THEN Fail("Already joined this game")
  ELSE IF HasRequest(g.joinRequests, userId) THEN Fail("Join request already pending")
  ELSE IF JoinCapacityReached(g) THEN Fail("Game is full")
  ELSE IF ~g.isPrivate
  THEN LET updatedConfirmedPlayers == Append(g.confirmedPlayers, userId)
       IN Ok("Successfully joined the game",
             [confirmedPlayers |-> updatedConfirmedPlayers,
              currentPlayers |-> Len(updatedConfirmedPlayers) + 1,
              status |-> JoinNewStatus(g, updatedConfirmedPlayers)])
  ELSE Ok("Join request sent to game host", JoinPrivateUpdates(g, userId))

joinGame(g, userId) ==
  IF g.status # "open" THEN Fail("Game is not open for joining")
  ELSE IF JoinCapacityReached(g) THEN Fail("Game is full")
  ELSE IF Includes(g.confirmedPlayers, userId) THEN Fail("Already joined this game")
  ELSE IF HasRequest(g.joinRequests, userId) THEN Fail("Join request already pending")
  ELSE IF ~g.isPrivate
  THEN LET updatedConfirmedPlayers == Append(g.confirmedPlayers, userId)
       IN Ok("Successfully joined the game",
             [confirmedPlayers |-> updatedConfirmedPlayers,
              currentPlayers |-> Len(updatedConfirmedPlayers) + 1,
              status |-> JoinNewStatus(g, updatedConfirmedPlayers)])
  ELSE Ok("Join request sent to game host", JoinPrivateUpdates(g, userId))

(***************************************************************************)
(* GameModel.leaveGame on a loaded row.                                    *)
(***************************************************************************)
LeaveNotMemberSwapped(g, updatedConfirmedPlayers, updatedJoinRequests) ==
  /\ Len(updatedConfirmedPlayers) = Len(g.joinRequests)
  /\ Len(updatedJoinRequests) = Len(g.confirmedPlayers)

LeaveNotMember(g, updatedConfirmedPlayers, updatedJoinRequests) ==
  /\ Len(updatedConfirmedPlayers) = Len(g.confirmedPlayers)
  /\ Len(updatedJoinRequests) = Len(g.joinRequests)

leaveGame(g, userId) ==
  LET updatedConfirmedPlayers == FilterPlayers(g.confirmedPlayers, userId)
      updatedJoinRequests == FilterRequests(g.joinRequests, userId)
  IN IF LeaveNotMember(g, updatedConfirmedPlayers, updatedJoinRequests)
     THEN Fail("Not part of this game")
     ELSE Ok("Successfully left the game",
             [confirmedPlayers |-> updatedConfirmedPlayers,
              joinRequests |-> updatedJoinRequests,
              currentPlayers |-> Len(updatedConfirmedPlayers) + 1,
              status |-> IF Len(updatedConfirmedPlayers) < g.maxPlayers
                         THEN "open" ELSE g.status])

(***************************************************************************)
(* GameModel.respondToJoinRequest on a loaded row.                         *)
(***************************************************************************)
RespondCapacityReachedIgnoringHost(g) == Len(g.confirmedPlayers) >= g.maxPlayers

RespondCapacityReached(g) == g.currentPlayers >= g.maxPlayers

RespondRemainingRequestsKept(g, userId) == g.joinRequests

RespondRemainingRequestsNone(g, userId) == <<>>

RespondRemainingRequests(g, userId) == FilterRequests(g.joinRequests, userId)

RespondNotHostUnlessPending(g, hostId, userId) ==
  g.hostId # hostId /\ ~HasRequest(g.joinRequests, userId)

RespondNotHost(g, hostId, userId) == g.hostId # hostId

respondToJoinRequest(g, hostId, userId, approve) ==
  IF RespondNotHost(g, hostId, userId)
  THEN Fail("Only the host can approve join requests")
  ELSE IF ~HasRequest(g.joinRequests, userId)
  THEN Fail("No pending join request from this user")
  ELSE LET updatedJoinRequests == RespondRemainingRequests(g, userId)
       IN IF approve
          THEN IF RespondCapacityReached(g) THEN Fail("Game is full")
               ELSE LET updatedConfirmedPlayers == Append(g.confirmedPlayers, userId)
                    IN Ok("Player approved and added to the game",
                          [joinRequests |-> updatedJoinRequests,
                           confirmedPlayers |-> updatedConfirmedPlayers,
                           currentPlayers |-> Len(updatedConfirmedPlayers) + 1,
                           status |-> JoinNewStatus(g, updatedConfirmedPlayers)])
          ELSE Ok("Join request declined", [joinRequests |-> updatedJoinRequests])

(***************************************************************************)
(* GameModel.createJoinRequest, acceptRequest and rejectRequest on a       *)
(* loaded row.                                                             *)
(***************************************************************************)
createJoinRequestUnchecked(g, userId) ==
  IF g.hostId = userId THEN Fail("You cannot join your own game")
  ELSE IF Includes(g.confirmedPlayers, userId) THEN Fail("Already joined this game")
  ELSE Ok("Join request sent successfully",
          [joinRequests |-> Append(g.joinRequests, NewRequest(userId))])

createJoinRequest(g, userId) ==
  IF g.hostId = userId THEN Fail("You cannot join your own game")
  ELSE IF Includes(g.confirmedPlayers, userId) THEN Fail("Already joined this game")
  ELSE IF HasRequest(g.joinRequests, userId) THEN Fail("Join request already pending")
  ELSE Ok("Join request sent successfully",
          [joinRequests |-> Append(g.joinRequests, NewRequest(userId))])

acceptRequest(g, userId) ==
  LET requestIndex == FindIndex(g.joinRequests, userId)
  IN IF requestIndex = 0 THEN Fail("Join request not found")
     ELSE LET confirmedPlayers == Append(g.confirmedPlayers, userId)
          IN Ok("Player request accepted",
                [joinRequests |-> Splice(g.joinRequests, requestIndex),
                 confirmedPlayers |-> confirmedPlayers,
                 currentPlayers |-> Len(confirmedPlayers) + 1])

rejectRequest(g, userId) ==
  LET requestIndex == FindIndex(g.joinRequests, userId)
  IN IF requestIndex = 0 THEN Fail("Join request not found")
     ELSE Ok("Player request rejected",
             [joinRequests |-> Splice(g.joinRequests, requestIndex)])

(***************************************************************************)
(* The game a POST / of the games route stores.                            *)
(***************************************************************************)
CreatedGame(hostId, maxPlayers, isPrivate) ==
  [hostId |-> hostId,
   currentPlayers |-> 1,
   maxPlayers |-> maxPlayers,
   isPrivate |-> isPrivate,
   joinRequests |-> <<>>,
   confirmedPlayers |-> <<>>,
   status |-> "open"]

\* applies a model method's result to the stored row
Written(row, result) ==
  IF result.success THEN GameUpdate(row, result.updates) ELSE row

Call(op, userId, targetId, approve, result) ==
  [op |-> op, userId |-> userId, targetId |-> targetId, approve |-> approve,
   success |-> result.success, message |-> result.message]

NoCall == [op |-> "create", userId |-> Host, targetId |-> Host, approve |-> FALSE,
           success |-> TRUE, message |-> "Game created successfully"]

NoBookings == <<>>

NoRequests == [p \in {} |-> 0]

InitGame ==
  /\ \E maxPlayers \in MinPlayers..MaxCapacity, isPrivate \in BOOLEAN :
       game = CreatedGame(Host, maxPlayers, isPrivate)
  /\ prev = game
  /\ last = NoCall
  /\ bookings = NoBookings
  /\ inflight = NoRequests

(***************************************************************************)
(* One action per route of the games router and per model method, each     *)
(* executed as a whole (load, decide, write).                              *)
(***************************************************************************)
JoinGame(userId) ==
  LET result == joinGame(game, userId)
  IN /\ game' = Written(game, result)
     /\ prev' = game
     /\ last' = Call("joinGame", userId, userId, FALSE, result)
     /\ UNCHANGED <<bookings, inflight>>

LeaveGame(userId) ==
  LET result == leaveGame(game, userId)
  IN /\ game' = Written(game, result)
     /\ prev' = game
     /\ last' = Call("leaveGame", userId, userId, FALSE, result)
     /\ UNCHANGED <<bookings, inflight>>

RespondToJoinRequest(hostId, userId, approve) ==
  LET result == respondToJoinRequest(game, hostId, userId, approve)
  IN /\ game' = Written(game, result)
     /\ prev' = game
     /\ last' = Call("respondToJoinRequest", hostId, userId, approve, result)
     /\ UNCHANGED <<bookings, inflight>>

CreateJoinRequest(userId) ==
  LET result == createJoinRequest(game, userId)
  IN /\ game' = Written(game, result)
     /\ prev' = game
     /\ last' = Call("createJoinRequest", userId, userId, FALSE, result)
     /\ UNCHANGED <<bookings, inflight>>

AcceptRequest(userId) ==
  LET result == acceptRequest(game, userId)
  IN /\ game' = Written(game, result)
     /\ prev' = game
     /\ last' = Call("acceptRequest", userId, userId, FALSE, result)
     /\ UNCHANGED <<bookings, inflight>>

RejectRequest(userId) ==
  LET result == rejectRequest(game, userId)
  IN /\ game' = Written(game, result)
     /\ prev' = game
     /\ last' = Call("rejectRequest", userId, userId, FALSE, result)
     /\ UNCHANGED <<bookings, inflight>>

\* joinGame and respondToJoinRequest only
NextJoinRespond ==
  \/ \E userId \in Users : JoinGame(userId)
  \/ \E hostId \in Users, userId \in Users, approve \in BOOLEAN :
       RespondToJoinRequest(hostId, userId, approve)

SpecJoinRespond == InitGame /\ [][NextJoinRespond]_vars

\* joinGame, leaveGame and respondToJoinRequest
NextMembership ==
  \/ \E userId \in Users : JoinGame(userId)
  \/ \E userId \in Users : LeaveGame(userId)
  \/ \E hostId \in Users, userId \in Users, approve \in BOOLEAN :
       RespondToJoinRequest(hostId, userId, approve)

SpecMembership == InitGame /\ [][NextMembership]_vars

\* the six membership methods of GameModel
Next ==
  \/ \E userId \in Users : JoinGame(userId)
  \/ \E userId \in Users : LeaveGame(userId)
  \/ \E hostId \in Users, userId \in Users, approve \in BOOLEAN :
       RespondToJoinRequest(hostId, userId, approve)
  \/ \E userId \in Users : CreateJoinRequest(userId)
  \/ \E userId \in Users : AcceptRequest(userId)
  \/ \E userId \in Users : RejectRequest(userId)

Spec == InitGame /\ [][Next]_vars

\* joinGame, createJoinRequest and acceptRequest
NextAccept ==
  \/ \E userId \in Users : JoinGame(userId)
  \/ \E userId \in Users : CreateJoinRequest(userId)
  \/ \E userId \in Users : AcceptRequest(userId)

SpecAccept == InitGame /\ [][NextAccept]_vars

(***************************************************************************)
(* joinGame as the event loop runs it: findById and update are two awaited *)
(* database calls, and another call's steps may run between them.  The     *)
(* UPDATE writes the lists computed from the loaded row, with no version   *)
(* check.                                                                  *)
(***************************************************************************)
\* the calls in flight
Calls == {"c1", "c2"}

\* UPDATE games SET ... WHERE id = ?, with the updates a call computed
JoinWriteMergingLists(row, updates) ==
  GameUpdate(row,
    IF "confirmedPlayers" \in DOMAIN updates
    THEN [updates EXCEPT
            !.confirmedPlayers =
              row.confirmedPlayers
                \o SelectSeq(updates.confirmedPlayers,
                             LAMBDA id : ~Includes(row.confirmedPlayers, id))]
    ELSE updates)

JoinWrite(row, updates) == GameUpdate(row, updates)

InitConcurrentJoin ==
  /\ \E maxPlayers \in MinPlayers..MaxCapacity, isPrivate \in BOOLEAN :
       game = CreatedGame(Host, maxPlayers, isPrivate)
  /\ prev = game
  /\ last = NoCall
  /\ bookings = NoBookings
  /\ inflight = [c \in Calls |-> [pc |-> "idle"]]

\* findById and the checks of joinGame: the call keeps the loaded row and
\* the updates it computed from it, or returns the failure
JoinLoadStep(c, userId) ==
  /\ inflight[c].pc \in {"idle", "returned"}
  /\ LET result == joinGame(game, userId)
     IN IF result.success
        THEN /\ inflight' = [inflight EXCEPT ![c] =
                               [pc |-> "loaded", userId |-> userId, loaded |-> game,
                                updates |-> result.updates, message |-> result.message]]
             /\ UNCHANGED last
        ELSE /\ inflight' = [inflight EXCEPT ![c] =
                               [pc |-> "returned", userId |-> userId, loaded |-> game,
                                success |-> FALSE, message |-> result.message]]
             /\ last' = Call("joinGame", userId, userId, FALSE, result)
  /\ UNCHANGED <<game, prev, bookings>>

\* the update call of joinGame and its return
JoinWriteStep(c) ==
  /\ inflight[c].pc = "loaded"
  /\ game' = JoinWrite(game, inflight[c].updates)
  /\ prev' = game
  /\ last' = Call("joinGame", inflight[c].userId, inflight[c].userId, FALSE,
                  [success |-> TRUE, message |-> inflight[c].message])
  /\ inflight' = [inflight EXCEPT ![c] =
                    [pc |-> "returned", userId |-> inflight[c].userId,
                     loaded |-> inflight[c].loaded,
                     success |-> TRUE, message |-> inflight[c].message]]
  /\ UNCHANGED bookings

NextConcurrentJoin ==
  \/ \E c \in Calls, userId \in Users : JoinLoadStep(c, userId)
  \/ \E c \in Calls : JoinWriteStep(c)

SpecConcurrentJoin == InitConcurrentJoin /\ [][NextConcurrentJoin]_vars

(***************************************************************************)
(* joinGame, leaveGame and respondToJoinRequest as the event loop runs     *)
(* them: each is a findById, the checks on the loaded row and one update   *)
(* call, and the steps of another call may run between the two database    *)
(* calls.                                                                  *)
(***************************************************************************)
\* the result a membership method computes from the row it loaded
MembershipResult(op, g, userId, targetId, approve) ==
  CASE op = "joinGame" -> joinGame(g, userId)
    [] op = "leaveGame" -> leaveGame(g, userId)
    [] op = "respondToJoinRequest" -> respondToJoinRequest(g, userId, targetId, approve)

\* a call that has returned; stale tells that the row it wrote over was not
\* the row it had loaded
Returned(op, userId, success, stale) ==
  [pc |-> "returned", op |-> op, userId |-> userId, success |-> success,
   stale |-> stale]

\* the lists of distinct users
PlayerLists ==
  {s \in UNION {[1..n -> Users] : n \in 0..Cardinality(Users)} :
     \A i, j \in 1..Len(s) : i # j => s[i] # s[j]}

\* the stored games that sequences of joinGame, leaveGame and
\* respondToJoinRequest calls, one at a time, lead to from a created game
MembershipGames ==
  {[hostId |-> Host,
    currentPlayers |-> Len(t[3]) + 1,
    maxPlayers |-> t[1],
    isPrivate |-> t[2],
    joinRequests |-> [i \in 1..Len(t[4]) |-> NewRequest(t[4][i])],
    confirmedPlayers |-> t[3],
    status |-> "open"] :
     t \in {u \in (MinPlayers..MaxCapacity) \X BOOLEAN \X PlayerLists \X PlayerLists :
              /\ \A i \in 1..Len(u[3]), j \in 1..Len(u[4]) : u[3][i] # u[4][j]
              /\ Len(u[3]) + 1 <= u[1]
              /\ ~u[2] => u[4] = <<>>}}

\* the games two concurrent calls start from
InitConcurrentMembership ==
  /\ game \in MembershipGames
  /\ prev = game
  /\ last = NoCall
  /\ bookings = NoBookings
  /\ inflight = [c \in Calls |-> [pc |-> "idle"]]

\* findById and the checks of a method
LoadStep(c, op, userId, targetId, approve, result) ==
  /\ inflight[c].pc = "idle"
  /\ IF result.success
     THEN /\ inflight' = [inflight EXCEPT ![c] =
                            [pc |-> "loaded", op |-> op, userId |-> userId,
                             targetId |-> targetId, approve |-> approve,
                             loaded |-> game, updates |-> result.updates,
                             message |-> result.message]]
          /\ UNCHANGED last
     ELSE /\ inflight' = [inflight EXCEPT ![c] = Returned(op, userId, FALSE, FALSE)]
          /\ last' = Call(op, userId, targetId, approve, result)
  /\ UNCHANGED <<game, prev, bookings>>

MembershipLoadStep(c, op, userId, targetId, approve) ==
  LoadStep(c, op, userId, targetId, approve,
           MembershipResult(op, game, userId, targetId, approve))

\* the update call of a method and its return
WriteStep(c) ==
  /\ inflight[c].pc = "loaded"
  /\ game' = GameUpdate(game, inflight[c].updates)
  /\ prev' = game
  /\ last' = Call(inflight[c].op, inflight[c].userId, inflight[c].targetId,
                  inflight[c].approve,
                  [success |-> TRUE, message |-> inflight[c].message])
  /\ inflight' = [inflight EXCEPT ![c] =
                    Returned(inflight[c].op, inflight[c].userId, TRUE,
                             game # inflight[c].loaded)]
  /\ UNCHANGED bookings

\* joinGame and leaveGame by any user, respondToJoinRequest by the host
NextConcurrentMembership ==
  \/ \E c \in Calls, op \in {"joinGame", "leaveGame"}, userId \in Users :
       MembershipLoadStep(c, op, userId, userId, FALSE)
  \/ \E c \in Calls, targetId \in Users, approve \in BOOLEAN :
       MembershipLoadStep(c, "respondToJoinRequest", Host, targetId, approve)
  \/ \E c \in Calls : WriteStep(c)

SpecConcurrentMembership == InitConcurrentMembership /\ [][NextConcurrentMembership]_vars

(***************************************************************************)
(* PUT /:id and DELETE /:id of the games route.                            *)
(***************************************************************************)
\* request bodies of PUT /:id: the body goes to GameModel.update as it is
UpdateBodies ==
  {[status |-> s] : s \in Statuses}
    \cup {[maxPlayers |-> n] : n \in MinPlayers..MaxCapacity}
    \cup {[isPrivate |-> b] : b \in BOOLEAN}

updateRoute(g, callerId, role, body) ==
  IF g.hostId # callerId /\ role # "admin"
  THEN Fail("Only the host can update this game")
  ELSE IF g.status = "in_progress" \/ g.status = "completed"
  THEN Fail("Cannot update game that has started or completed")
  ELSE Ok("Game updated successfully", body)

CancelGameStartedInProgressOnly(g) == g.status = "in_progress"

CancelGameStarted(g) == g.status = "in_progress" \/ g.status = "completed"

cancelRoute(g, callerId, role) ==
  IF g.hostId # callerId /\ role # "admin"
  THEN Fail("Only the host can cancel this game")
  ELSE IF CancelGameStarted(g)
  THEN Fail("Cannot cancel game that has started or completed")
  ELSE Ok("Game cancelled successfully", [status |-> "cancelled"])

UpdateGame(callerId, role, body) ==
  LET result == updateRoute(game, callerId, role, body)
  IN /\ game' = Written(game, result)
     /\ prev' = game
     /\ last' = Call("update", callerId, callerId, role = "admin", result)
     /\ UNCHANGED <<bookings, inflight>>

CancelGame(callerId, role) ==
  LET result == cancelRoute(game, callerId, role)
  IN /\ game' = Written(game, result)
     /\ prev' = game
     /\ last' = Call("cancel", callerId, callerId, role = "admin", result)
     /\ UNCHANGED <<bookings, inflight>>

\* the membership calls of the games route together with update and cancel
NextLifecycle ==
  \/ \E userId \in Users : JoinGame(userId)
  \/ \E userId \in Users : LeaveGame(userId)
  \/ \E hostId \in Users, userId \in Users, approve \in BOOLEAN :
       RespondToJoinRequest(hostId, userId, approve)
  \/ \E callerId \in Users, role \in Roles, body \in UpdateBodies :
       UpdateGame(callerId, role, body)
  \/ \E callerId \in Users, role \in Roles : CancelGame(callerId, role)

SpecLifecycle == InitGame /\ [][NextLifecycle]_vars

\* request bodies of PUT /:id that carry the roster fields of a game
RosterBodies ==
  {[confirmedPlayers |-> <<"b">>],
   [joinRequests |-> <<NewRequest("b")>>],
   [currentPlayers |-> MaxCapacity]}

\* joinGame with update and cancel, for every request body of PUT /:id
NextUpdate ==
  \/ \E userId \in Users : JoinGame(userId)
  \/ \E callerId \in Users, role \in Roles, body \in UpdateBodies \cup RosterBodies :
       UpdateGame(callerId, role, body)
  \/ \E callerId \in Users, role \in Roles : CancelGame(callerId, role)

SpecUpdate == InitGame /\ [][NextUpdate]_vars

\* DELETE /:id: findById, the checks and update(id, {status: 'cancelled'})
CancelLoadStep(c, callerId, role) ==
  LoadStep(c, "cancel", callerId, callerId, role = "admin",
           cancelRoute(game, callerId, role))

\* the membership calls running together with the host's cancel request
NextConcurrentCancel ==
  \/ \E c \in Calls, op \in {"joinGame", "leaveGame"}, userId \in Users :
       MembershipLoadStep(c, op, userId, userId, FALSE)
  \/ \E c \in Calls, targetId \in Users, approve \in BOOLEAN :
       MembershipLoadStep(c, "respondToJoinRequest", Host, targetId, approve)
  \/ \E c \in Calls : CancelLoadStep(c, Host, "user")
  \/ \E c \in Calls : WriteStep(c)

SpecConcurrentCancel == InitConcurrentMembership /\ [][NextConcurrentCancel]_vars

(***************************************************************************)
(* GET /:id of the games route.  optionalAuth sets req.user for a valid    *)
(* token and leaves it unset otherwise.                                    *)
(***************************************************************************)
\* the caller of a request with no valid token
Anonymous == "anonymous"

\* request === id for a join request object and a user id string
RequestEqualsId(request, id) == FALSE

\* game.joinRequests.includes(req.user.id)
RequestsInclude(joinRequests, id) ==
  \E i \in 1..Len(joinRequests) : RequestEqualsId(joinRequests[i], id)

getRoute(g, callerId) ==
  IF g.isPrivate /\ callerId # Anonymous
  THEN LET isParticipant == \/ g.hostId = callerId
                            \/ Includes(g.confirmedPlayers, callerId)
                            \/ RequestsInclude(g.joinRequests, callerId)
       IN IF ~isParticipant THEN Fail("This is a private game")
          ELSE [success |-> TRUE, message |-> "game"]
  ELSE IF g.isPrivate THEN Fail("This is a private game")
  ELSE [success |-> TRUE, message |-> "game"]

GetGame(callerId) ==
  /\ last' = Call("getGame", callerId, callerId, FALSE, getRoute(game, callerId))
  /\ prev' = game
  /\ UNCHANGED <<game, bookings, inflight>>

\* the membership calls of the games route together with GET /:id
NextVisibility ==
  \/ \E userId \in Users : JoinGame(userId)
  \/ \E userId \in Users : LeaveGame(userId)
  \/ \E hostId \in Users, userId \in Users, approve \in BOOLEAN :
       RespondToJoinRequest(hostId, userId, approve)
  \/ \E callerId \in Users \cup {Anonymous} : GetGame(callerId)

SpecVisibility == InitGame /\ [][NextVisibility]_vars

(***************************************************************************)
(* Bookings.  A time is the "HH:MM" string bookingCreateSchema accepts,    *)
(* kept as its four digits; SQLite compares the TEXT columns digit by      *)
(* digit, Postgres compares the TIME columns by the time of day.           *)
(***************************************************************************)
\* minutesToTime: hours and minutes padded to two digits each
HHMM(hours, mins) == <<hours \div 10, hours % 10, mins \div 10, mins % 10>>

Times == {HHMM(9, 0), HHMM(9, 30), HHMM(10, 0), HHMM(11, 0)}

\* timeToMinutes of the bookings route
timeToMinutes(time) == (time[1] * 10 + time[2]) * 60 + time[3] * 10 + time[4]

\* a < b on SQLite TEXT values of equal length
TextLess(a, b) ==
  \E i \in 1..Len(a) : a[i] < b[i] /\ \A j \in 1..(i - 1) : a[j] = b[j]

\* a < b on Postgres TIME values
TimeLess(a, b) == timeToMinutes(a) < timeToMinutes(b)

TurfIds == {"t1", "t2"}

\* the turfs table: t3 is inactive and "none" is no turf
Turfs ==
  [t1 |-> [ownerId |-> "h", isActive |-> TRUE],
   t2 |-> [ownerId |-> "h", isActive |-> TRUE],
   t3 |-> [ownerId |-> "h", isActive |-> FALSE]]

\* a Friday and a Sunday
Dates == {"2025-08-29", "2025-08-31"}

BookingStatuses == {"pending", "confirmed", "cancelled", "completed"}

ActiveStatuses == {"pending", "confirmed"}

\* BookingModel.checkAvailability of the SQLite model: the WHERE clause on one row
SqliteConflictsClosedIntervals(row, turfId, date, startTime, endTime) ==
  /\ row.turfId = turfId
  /\ row.date = date
  /\ row.status \in ActiveStatuses
  /\ (~TextLess(endTime, row.startTime) /\ ~TextLess(row.endTime, startTime))

SqliteConflicts(row, turfId, date, startTime, endTime) ==
  /\ row.turfId = turfId
  /\ row.date = date
  /\ row.status \in ActiveStatuses
  /\ \/ (TextLess(row.startTime, endTime) /\ TextLess(startTime, row.endTime))
     \/ (TextLess(row.startTime, startTime) /\ TextLess(endTime, row.endTime))
     \/ (~TextLess(row.startTime, startTime) /\ TextLess(row.startTime, endTime))

checkAvailability(rows, turfId, date, startTime, endTime) ==
  Cardinality({i \in 1..Len(rows) :
                 SqliteConflicts(rows[i], turfId, date, startTime, endTime)}) = 0

\* BookingModel.findConflictingBookings of the Supabase model: the filter on one row
SupabaseConflicts(row, turfId, date, startTime, endTime) ==
  /\ row.turfId = turfId
  /\ row.date = date
  /\ row.status \in ActiveStatuses
  /\ \/ (~TimeLess(startTime, row.startTime) /\ TimeLess(startTime, row.endTime))
     \/ (TimeLess(row.startTime, endTime) /\ ~TimeLess(row.endTime, endTime))
     \/ (~TimeLess(row.startTime, startTime) /\ ~TimeLess(endTime, row.endTime))

findConflictingBookings(rows, turfId, date, startTime, endTime) ==
  SelectSeq(rows, LAMBDA row : SupabaseConflicts(row, turfId, date, startTime, endTime))

checkAvailabilitySupabase(rows, turfId, date, startTime, endTime) ==
  Len(findConflictingBookings(rows, turfId, date, startTime, endTime)) = 0

\* the row POST / of the bookings route inserts
NewBooking(userId, turfId, date, startTime, endTime) ==
  [userId |-> userId, turfId |-> turfId, date |-> date,
   startTime |-> startTime, endTime |-> endTime, status |-> "pending"]

\* BookingModel.update of the SQLite model for the updates {status}
BookingUpdateStatus(rows, id, status) ==
  [rows EXCEPT ![id].status = IF status # "" THEN status ELSE @]

BookingCall(op, success, message) ==
  [op |-> op, success |-> success, message |-> message]

InitBooking ==
  /\ game = CreatedGame(Host, MinPlayers, FALSE)
  /\ prev = game
  /\ last = BookingCall("none", TRUE, "")
  /\ bookings = NoBookings
  /\ inflight = NoRequests

\* POST / of the bookings route, as one step
CreateBooking(userId, turfId, date, startTime, endTime) ==
  /\ Len(bookings) < MaxBookings
  /\ IF ~Turfs[turfId].isActive
     THEN /\ last' = BookingCall("createBooking", FALSE, "Turf not found or inactive")
          /\ UNCHANGED bookings
     ELSE IF ~checkAvailability(bookings, turfId, date, startTime, endTime)
     THEN /\ last' = BookingCall("createBooking", FALSE, "Time slot not available")
          /\ UNCHANGED bookings
     ELSE /\ bookings' = Append(bookings,
                                NewBooking(userId, turfId, date, startTime, endTime))
          /\ last' = BookingCall("createBooking", TRUE, "Booking created successfully")
  /\ UNCHANGED <<game, prev, inflight>>

\* PATCH /:id/status of the bookings route
UpdateBookingStatus(id, status, callerId, role) ==
  /\ IF status \notin BookingStatuses
     THEN /\ last' = BookingCall("updateStatus", FALSE, "Invalid status")
          /\ UNCHANGED bookings
     ELSE IF id \notin 1..Len(bookings)
     THEN /\ last' = BookingCall("updateStatus", FALSE, "Booking not found")
          /\ UNCHANGED bookings
     ELSE IF ~(\/ bookings[id].userId = callerId
               \/ Turfs[bookings[id].turfId].ownerId = callerId
               \/ role = "admin")
     THEN /\ last' = BookingCall("updateStatus", FALSE, "Access denied")
          /\ UNCHANGED bookings
     ELSE /\ bookings' = BookingUpdateStatus(bookings, id, status)
          /\ last' = BookingCall("updateStatus", TRUE,
                                 "Booking status updated successfully")
  /\ UNCHANGED <<game, prev, inflight>>

\* the user who books, and the times requested of the route
Customers == {"a"}

RequestTimes == {HHMM(9, 0), HHMM(10, 0), HHMM(11, 0)}

NextBooking ==
  \/ \E userId \in Customers, turfId \in DOMAIN Turfs, date \in Dates,
        startTime \in RequestTimes, endTime \in RequestTimes :
       CreateBooking(userId, turfId, date, startTime, endTime)
  \/ \E id \in 1..MaxBookings, status \in BookingStatuses \cup {"unknown"},
        callerId \in Users, role \in Roles :
       UpdateBookingStatus(id, status, callerId, role)

SpecBooking == InitBooking /\ [][NextBooking]_vars

(***************************************************************************)
(* The availability functions on a bookings table of any stored rows.      *)
(***************************************************************************)
ProperIntervals == {iv \in Times \X Times : TimeLess(iv[1], iv[2])}

StoredRows ==
  {[userId |-> "a", turfId |-> turfId, date |-> date,
    startTime |-> iv[1], endTime |-> iv[2], status |-> status] :
     turfId \in TurfIds, date \in Dates, iv \in ProperIntervals,
     status \in BookingStatuses}

StoredTables ==
  UNION {[1..n -> StoredRows] : n \in 0..MaxStored}

AvailabilityCall(turfId, date, startTime, endTime, sqlite, supabase) ==
  [op |-> "checkAvailability", turfId |-> turfId, date |-> date,
   startTime |-> startTime, endTime |-> endTime,
   sqlite |-> sqlite, supabase |-> supabase]

InitAvailability ==
  /\ game = CreatedGame(Host, MinPlayers, FALSE)
  /\ prev = game
  /\ last = BookingCall("none", TRUE, "")
  /\ bookings \in StoredTables
  /\ inflight = NoRequests

CheckAvailability(turfId, date, startTime, endTime) ==
  /\ last' = AvailabilityCall(turfId, date, startTime, endTime,
               checkAvailability(bookings, turfId, date, startTime, endTime),
               checkAvailabilitySupabase(bookings, turfId, date, startTime, endTime))
  /\ UNCHANGED <<game, prev, bookings, inflight>>

NextAvailability ==
  \E turfId \in TurfIds, date \in Dates, iv \in ProperIntervals :
    CheckAvailability(turfId, date, iv[1], iv[2])

SpecAvailability == InitAvailability /\ [][NextAvailability]_vars

(***************************************************************************)
(* POST / of the bookings route as the event loop runs it: the             *)
(* availability query and the insert are two awaited database calls, and   *)
(* another request's calls may run between them.                           *)
(***************************************************************************)
Requests == {"r1", "r2"}

InitConcurrentBooking ==
  /\ game = CreatedGame(Host, MinPlayers, FALSE)
  /\ prev = game
  /\ last = BookingCall("none", TRUE, "")
  /\ bookings = NoBookings
  /\ inflight = [r \in Requests |-> [pc |-> "idle"]]

\* the turf lookup and the availability query of a request
CheckStep(r, userId, turfId, date, startTime, endTime) ==
  /\ inflight[r].pc = "idle"
  /\ IF ~Turfs[turfId].isActive
     THEN /\ inflight' = [inflight EXCEPT ![r] = [pc |-> "refused"]]
          /\ last' = BookingCall("createBooking", FALSE, "Turf not found or inactive")
     ELSE IF ~checkAvailability(bookings, turfId, date, startTime, endTime)
     THEN /\ inflight' = [inflight EXCEPT ![r] = [pc |-> "refused"]]
          /\ last' = BookingCall("createBooking", FALSE, "Time slot not available")
     ELSE /\ inflight' = [inflight EXCEPT ![r] =
                            [pc |-> "available",
                             booking |-> NewBooking(userId, turfId, date,
                                                    startTime, endTime)]]
          /\ UNCHANGED last
  /\ UNCHANGED <<game, prev, bookings>>

\* BookingModel.create of a request whose availability query passed
InsertStep(r) ==
  /\ inflight[r].pc = "available"
  /\ bookings' = Append(bookings, inflight[r].booking)
  /\ inflight' = [inflight EXCEPT ![r].pc = "inserted"]
  /\ last' = BookingCall("createBooking", TRUE, "Booking created successfully")
  /\ UNCHANGED <<game, prev>>

NextConcurrentBooking ==
  \/ \E r \in Requests, userId \in Customers, turfId \in DOMAIN Turfs,
        date \in Dates, startTime \in RequestTimes, endTime \in RequestTimes :
       CheckStep(r, userId, turfId, date, startTime, endTime)
  \/ \E r \in Requests : InsertStep(r)

SpecConcurrentBooking == InitConcurrentBooking /\ [][NextConcurrentBooking]_vars

(***************************************************************************)
(* The amount POST / of the bookings route stores.  new Date(date) reads   *)
(* "YYYY-MM-DD" as midnight UTC and getDay answers in the time zone of the *)
(* server process, which the code does not set.                            *)
(***************************************************************************)
\* number of bookings the priced bookings table may hold
MaxPriced == 1

\* pricePerHour and pricePerHourWeekend of the turfs; 0 is a rate not set
TurfPrices ==
  [t1 |-> [pricePerHour |-> 800, pricePerHourWeekend |-> 1000],
   t2 |-> [pricePerHour |-> 600, pricePerHourWeekend |-> 0],
   t3 |-> [pricePerHour |-> 500, pricePerHourWeekend |-> 700]]

\* a Friday, a Saturday, a Sunday and a Monday
PricingDates == {"2025-08-29", "2025-08-30", "2025-08-31", "2025-09-01"}

\* year, month and day of a date string
DateParts(date) ==
  CASE date = "2025-08-29" -> [year |-> 2025, month |-> 8, day |-> 29]
    [] date = "2025-08-30" -> [year |-> 2025, month |-> 8, day |-> 30]
    [] date = "2025-08-31" -> [year |-> 2025, month |-> 8, day |-> 31]
    [] date = "2025-09-01" -> [year |-> 2025, month |-> 9, day |-> 1]

\* days from 1970-01-01 to the date, as Date.parse counts them
EpochDay(date) ==
  LET parts == DateParts(date)
      y == IF parts.month <= 2 THEN parts.year - 1 ELSE parts.year
      era == y \div 400
      yoe == y - era * 400
      mp == IF parts.month > 2 THEN parts.month - 3 ELSE parts.month + 9
      doy == (153 * mp + 2) \div 5 + parts.day - 1
      doe == yoe * 365 + yoe \div 4 - yoe \div 100 + doy
  IN era * 146097 + doe - 719468

\* getTimezoneOffset() of the server process in minutes: Asia/Kolkata, UTC
\* and America/New_York in summer
TimezoneOffsets == {0 - 330, 0, 240}

\* new Date(date).getDay(): 0 is Sunday, 6 is Saturday
GetDay(date, timezoneOffset) ==
  LET localMinutes == EpochDay(date) * 1440 - timezoneOffset
  IN ((localMinutes \div 1440) + 4) % 7

HourlyRate(turfId, isWeekend) ==
  IF isWeekend /\ TurfPrices[turfId].pricePerHourWeekend # 0
  THEN TurfPrices[turfId].pricePerHourWeekend
  ELSE TurfPrices[turfId].pricePerHour

\* durationHours * hourlyRate; the quotient is exact for the rates of
\* TurfPrices and times on the half hour
TotalAmount(turfId, date, startTime, endTime, timezoneOffset) ==
  LET startMinutes == timeToMinutes(startTime)
      endMinutes == timeToMinutes(endTime)
      day == GetDay(date, timezoneOffset)
      isWeekend == day = 0 \/ day = 6
  IN ((endMinutes - startMinutes) * HourlyRate(turfId, isWeekend)) \div 60

PricedBooking(userId, turfId, date, startTime, endTime, timezoneOffset) ==
  [userId |-> userId, turfId |-> turfId, date |-> date,
   startTime |-> startTime, endTime |-> endTime, status |-> "pending",
   totalAmount |-> TotalAmount(turfId, date, startTime, endTime, timezoneOffset)]

PricedCall(success, message, turfId, date, startTime, endTime, timezoneOffset) ==
  [op |-> "createBooking", success |-> success, message |-> message,
   turfId |-> turfId, date |-> date, startTime |-> startTime,
   endTime |-> endTime, timezoneOffset |-> timezoneOffset]

\* POST / of the bookings route with the amount it computes
CreatePricedBooking(userId, turfId, date, startTime, endTime, timezoneOffset) ==
  /\ Len(bookings) < MaxPriced
  /\ IF ~Turfs[turfId].isActive
     THEN /\ last' = PricedCall(FALSE, "Turf not found or inactive", turfId, date,
                                startTime, endTime, timezoneOffset)
          /\ UNCHANGED bookings
     ELSE IF ~checkAvailability(bookings, turfId, date, startTime, endTime)
     THEN /\ last' = PricedCall(FALSE, "Time slot not available", turfId, date,
                                startTime, endTime, timezoneOffset)
          /\ UNCHANGED bookings
     ELSE /\ bookings' = Append(bookings,
                                PricedBooking(userId, turfId, date, startTime,
                                              endTime, timezoneOffset))
          /\ last' = PricedCall(TRUE, "Booking created successfully", turfId, date,
                                startTime, endTime, timezoneOffset)
  /\ UNCHANGED <<game, prev, inflight>>

NextPricing ==
  \E userId \in Customers, turfId \in DOMAIN Turfs, date \in PricingDates,
     startTime \in Times, endTime \in Times, timezoneOffset \in TimezoneOffsets :
    CreatePricedBooking(userId, turfId, date, startTime, endTime, timezoneOffset)

SpecPricing == InitBooking /\ [][NextPricing]_vars

(***************************************************************************)
(* BookingModel.getAvailableSlots of both models.  The SQLite model        *)
(* compares the slot's start with the TEXT columns; the Supabase model     *)
(* compares the strings "HH:00" with the TIME columns as Postgres prints   *)
(* them, "HH:MM:SS".                                                       *)
(***************************************************************************)
\* number of stored bookings getAvailableSlots is applied to
MaxSlotRows == 1

\* minutesToTime of the SQLite model
minutesToTime(minutes) == HHMM(minutes \div 60, minutes % 60)

\* generateTimeSlots of the SQLite model: the slots from minute current on
RECURSIVE SlotsFrom(_, _, _)
SlotsFrom(current, end, durationMinutes) ==
  IF current < end
  THEN <<[startTime |-> minutesToTime(current),
          endTime |-> minutesToTime(current + durationMinutes)]>>
         \o SlotsFrom(current + durationMinutes, end, durationMinutes)
  ELSE <<>>

generateTimeSlots(startTime, endTime, durationMinutes) ==
  SlotsFrom(timeToMinutes(startTime), timeToMinutes(endTime), durationMinutes)

\* the rows the SELECT of getAvailableSlots returns
BookedSlots(rows, turfId, date) ==
  SelectSeq(rows, LAMBDA row : /\ row.turfId = turfId
                               /\ row.date = date
                               /\ row.status \in ActiveStatuses)

SqliteSlotTakenStrictStart(slot, booking) ==
  /\ TextLess(booking.startTime, slot.startTime)
  /\ TextLess(slot.startTime, booking.endTime)

\* the test of the SQLite filter on one slot and one booked row
SqliteSlotTaken(slot, booking) ==
  /\ ~TextLess(slot.startTime, booking.startTime)
  /\ TextLess(slot.startTime, booking.endTime)

getAvailableSlots(rows, turfId, date) ==
  LET bookedSlots == BookedSlots(rows, turfId, date)
      allSlots == generateTimeSlots(HHMM(6, 0), HHMM(23, 0), 60)
  IN SelectSeq(allSlots,
               LAMBDA slot : ~\E i \in 1..Len(bookedSlots) :
                                 SqliteSlotTaken(slot, bookedSlots[i]))

\* a TIME value as Postgres prints it: "HH:MM:SS"
TimeText(time) == time \o <<0, 0>>

\* a < b on JavaScript strings of digits
StringLess(a, b) ==
  \/ \E i \in 1..Len(a) :
       /\ i <= Len(b)
       /\ a[i] < b[i]
       /\ \A j \in 1..(i - 1) : a[j] = b[j]
  \/ /\ Len(a) < Len(b)
     /\ \A j \in 1..Len(a) : a[j] = b[j]

\* isBooked of the Supabase model on one slot and one booked row
SupabaseSlotTaken(slot, booked) ==
  LET bookedStart == TimeText(booked.startTime)
      bookedEnd == TimeText(booked.endTime)
  IN \/ (~StringLess(slot.startTime, bookedStart) /\ StringLess(slot.startTime, bookedEnd))
     \/ (StringLess(bookedStart, slot.endTime) /\ ~StringLess(bookedEnd, slot.endTime))
     \/ (~StringLess(bookedStart, slot.startTime) /\ ~StringLess(slot.endTime, bookedEnd))

\* the hours 6..22 of the Supabase loop, from hour on
RECURSIVE HourSlotsFrom(_, _)
HourSlotsFrom(hour, bookedSlots) ==
  IF hour < 23
  THEN LET slot == [startTime |-> HHMM(hour, 0), endTime |-> HHMM(hour + 1, 0)]
           isBooked == \E i \in 1..Len(bookedSlots) :
                         SupabaseSlotTaken(slot, bookedSlots[i])
       IN (IF isBooked THEN <<>> ELSE <<slot>>) \o HourSlotsFrom(hour + 1, bookedSlots)
  ELSE <<>>

getAvailableSlotsSupabase(rows, turfId, date) ==
  HourSlotsFrom(6, BookedSlots(rows, turfId, date))

\* Booking.ts of the models folder is one of the two models
Models == {"sqlite", "supabase"}

SlotsOf(model, rows, turfId, date) ==
  IF model = "sqlite" THEN getAvailableSlots(rows, turfId, date)
  ELSE getAvailableSlotsSupabase(rows, turfId, date)

\* the stored bookings getAvailableSlots is applied to
SlotRows ==
  {[userId |-> "a", turfId |-> "t1", date |-> "2025-08-29",
    startTime |-> iv[1], endTime |-> iv[2], status |-> status] :
     iv \in ProperIntervals, status \in {"confirmed", "cancelled"}}

SlotTables ==
  UNION {[1..n -> SlotRows] : n \in 0..MaxSlotRows}

SlotsCall(op, model, turfId, date, slots, booked) ==
  [op |-> op, model |-> model, turfId |-> turfId, date |-> date,
   slots |-> slots, booked |-> booked]

InitSlots ==
  /\ game = CreatedGame(Host, MinPlayers, FALSE)
  /\ prev = game
  /\ last = BookingCall("none", TRUE, "")
  /\ bookings \in SlotTables
  /\ inflight = NoRequests

\* getAvailableSlots of one model; booked tells that the call before it
\* booked the slots of the same model, turf and date
GetAvailableSlots(model, turfId, date) ==
  /\ last' = SlotsCall("getAvailableSlots", model, turfId, date,
                       SlotsOf(model, bookings, turfId, date),
                       /\ last.op = "bookSlots"
                       /\ last.model = model
                       /\ last.turfId = turfId
                       /\ last.date = date)
  /\ UNCHANGED <<game, prev, bookings, inflight>>

\* BookingModel.create with status pending for every slot the last
\* getAvailableSlots call returned
BookReturnedSlots(userId) ==
  /\ last.op = "getAvailableSlots"
  /\ Len(bookings) <= MaxSlotRows
  /\ bookings' = bookings \o
       [i \in 1..Len(last.slots) |->
          NewBooking(userId, last.turfId, last.date,
                     last.slots[i].startTime, last.slots[i].endTime)]
  /\ last' = SlotsCall("bookSlots", last.model, last.turfId, last.date,
                       last.slots, FALSE)
  /\ UNCHANGED <<game, prev, inflight>>

NextSlots ==
  \/ \E model \in Models, turfId \in TurfIds, date \in Dates :
       GetAvailableSlots(model, turfId, date)
  \/ \E userId \in Customers : BookReturnedSlots(userId)

SpecSlots == InitSlots /\ [][NextSlots]_vars

(***************************************************************************)
(* Properties of the bookings.                                             *)
(***************************************************************************)
\* the half-open intervals [a.startTime, a.endTime) and [b.startTime, b.endTime)
\* have a minute in common
Overlap(a, b) ==
  /\ timeToMinutes(a.startTime) < timeToMinutes(a.endTime)
  /\ timeToMinutes(b.startTime) < timeToMinutes(b.endTime)
  /\ timeToMinutes(a.startTime) < timeToMinutes(b.endTime)
  /\ timeToMinutes(b.startTime) < timeToMinutes(a.endTime)

\* C4: after any sequence of create-booking requests and status updates,
\* the pending and confirmed bookings of a turf and date do not overlap.
C4_ActiveBookingsDoNotOverlap ==
  \A i, j \in 1..Len(bookings) :
    (/\ i < j
     /\ bookings[i].turfId = bookings[j].turfId
     /\ bookings[i].date = bookings[j].date
     /\ bookings[i].status \in ActiveStatuses
     /\ bookings[j].status \in ActiveStatuses)
      => ~Overlap(bookings[i], bookings[j])

\* C5: both checkAvailability implementations answer true exactly when no
\* pending or confirmed booking of the turf and date has an interval [c, d)
\* with c < endTime and startTime < d, for intervals with start < end.
C5_AvailableIffNoOverlap ==
  last.op = "checkAvailability" =>
    LET free == \A i \in 1..Len(bookings) :
                  ~(/\ bookings[i].turfId = last.turfId
                    /\ bookings[i].date = last.date
                    /\ bookings[i].status \in ActiveStatuses
                    /\ timeToMinutes(bookings[i].startTime) < timeToMinutes(last.endTime)
                    /\ timeToMinutes(last.startTime) < timeToMinutes(bookings[i].endTime))
    IN /\ last.sqlite = free
       /\ last.supabase = free

\* a request that starts exactly when a pending booking of the same turf and
\* date ends is answered available by both implementations
C5_Witness ==
  /\ last.op = "checkAvailability"
  /\ last.sqlite
  /\ last.supabase
  /\ \E i \in 1..Len(bookings) :
       /\ bookings[i].turfId = last.turfId
       /\ bookings[i].date = last.date
       /\ bookings[i].status = "pending"
       /\ bookings[i].endTime = last.startTime

\* C6: of two create-booking requests for overlapping intervals of one turf
\* and date that run concurrently, at most one inserts a booking.
C6_AtMostOneOverlappingInsert ==
  \A r, q \in Requests :
    (/\ r # q
     /\ inflight[r].pc = "inserted"
     /\ inflight[q].pc = "inserted"
     /\ inflight[r].booking.turfId = inflight[q].booking.turfId
     /\ inflight[r].booking.date = inflight[q].booking.date)
      => ~Overlap(inflight[r].booking, inflight[q].booking)

(***************************************************************************)
(* Properties of the game state machine.  prev is the stored game before   *)
(* the last call and last is that call with its outcome.                   *)
(***************************************************************************)
InEitherList(g, userId) ==
  Includes(g.confirmedPlayers, userId) \/ HasRequest(g.joinRequests, userId)

Closed(g) == g.status \in {"in_progress", "completed", "cancelled"}

\* C1: after every joinGame and respondToJoinRequest call on a created game
\* whose maxPlayers is not changed, the confirmed players plus the host are
\* at most maxPlayers.
C1_CapacityInvariant ==
  Len(game.confirmedPlayers) + 1 <= game.maxPlayers

\* an approval has filled the last place, and the capacity is exactly reached
C1_Witness ==
  /\ last.op = "respondToJoinRequest"
  /\ last.approve
  /\ last.success
  /\ Len(prev.confirmedPlayers) + 1 < prev.maxPlayers
  /\ Len(game.confirmedPlayers) + 1 = game.maxPlayers

\* C2: after every call of the six membership methods, one at a time from
\* empty lists, no user is both in confirmedPlayers and in joinRequests.
C2_NoDoubleMembership ==
  \A userId \in Users :
    ~(Includes(game.confirmedPlayers, userId) /\ HasRequest(game.joinRequests, userId))

\* a confirmed player asked to be put on the request list and was refused
C2_Witness ==
  /\ last.op = "createJoinRequest"
  /\ ~last.success
  /\ Includes(prev.confirmedPlayers, last.userId)
  /\ game.joinRequests # <<>>

\* C3: status is full exactly when the confirmed players plus the host equal
\* maxPlayers; the join that fills the last place sets status to full.
C3_FullIffAtCapacity ==
  (game.status = "full") <=> (Len(game.confirmedPlayers) + 1 = game.maxPlayers)

\* C7: on a game that is in_progress, completed or cancelled every joinGame,
\* leaveGame and respondToJoinRequest call fails and leaves the game as it is.
C7_ClosedGameRefusesMembershipCalls ==
  (/\ Closed(prev)
   /\ last.op \in {"joinGame", "leaveGame", "respondToJoinRequest"})
    => (~last.success /\ game = prev)

\* C8: a joinGame or createJoinRequest call by the host is refused and adds
\* nothing, so the host is never in confirmedPlayers or joinRequests.
C8_HostNeverListed ==
  /\ ~InEitherList(game, game.hostId)
  /\ (last.op \in {"joinGame", "createJoinRequest"} /\ last.userId = prev.hostId)
       => (~last.success /\ game = prev)

\* C9: on a private game that is open and below capacity, joinGame by a user
\* in neither list appends the user to joinRequests and leaves
\* confirmedPlayers, currentPlayers and status as they are; the host's
\* approval that follows removes the request and appends the user to
\* confirmedPlayers.
C9_PrivateJoinThenApprove ==
  (/\ last.op = "joinGame"
   /\ prev.isPrivate
   /\ prev.status = "open"
   /\ Len(prev.confirmedPlayers) + 1 < prev.maxPlayers
   /\ ~InEitherList(prev, last.userId))
    => (/\ last.success
        /\ game.joinRequests = Append(prev.joinRequests, NewRequest(last.userId))
        /\ game.confirmedPlayers = prev.confirmedPlayers
        /\ game.currentPlayers = prev.currentPlayers
        /\ game.status = prev.status
        /\ LET approval == respondToJoinRequest(game, game.hostId, last.userId, TRUE)
               approved == Written(game, approval)
           IN /\ approval.success
              /\ ~HasRequest(approved.joinRequests, last.userId)
              /\ approved.confirmedPlayers
                   = Append(game.confirmedPlayers, last.userId))

\* the host has approved a request that a private joinGame had queued
C9_Witness ==
  /\ last.op = "respondToJoinRequest"
  /\ last.approve
  /\ last.success
  /\ prev.isPrivate
  /\ HasRequest(prev.joinRequests, last.targetId)
  /\ ~HasRequest(game.joinRequests, last.targetId)
  /\ game.confirmedPlayers = Append(prev.confirmedPlayers, last.targetId)

\* C10: leaveGame by a user in neither list fails and writes nothing, and so
\* does the same call made once more: the game then equals the game before
\* the two calls.
C10_LeaveByNonMemberFails ==
  (last.op = "leaveGame" /\ ~InEitherList(prev, last.userId))
    => (/\ ~last.success
        /\ game = prev
        /\ LET again == leaveGame(game, last.userId)
           IN ~again.success /\ Written(game, again) = prev)

\* a non-member's leaveGame was refused on a game that has members
C10_Witness ==
  /\ last.op = "leaveGame"
  /\ ~last.success
  /\ ~InEitherList(prev, last.userId)
  /\ prev.confirmedPlayers # <<>>
  /\ prev.joinRequests # <<>>

\* C11: respondToJoinRequest called with a hostId that is not the game's host
\* fails and leaves the game unchanged, for every target user and both
\* values of approve, whether or not the target has a pending request.
C11_NonHostResponseRefused ==
  (last.op = "respondToJoinRequest" /\ last.userId # prev.hostId)
    => (/\ ~last.success
        /\ last.message = "Only the host can approve join requests"
        /\ game = prev)

\* a user who is not the host tried to approve a request that is pending
C11_Witness ==
  /\ last.op = "respondToJoinRequest"
  /\ last.userId # prev.hostId
  /\ last.approve
  /\ HasRequest(prev.joinRequests, last.targetId)
  /\ Len(prev.confirmedPlayers) + 1 < prev.maxPlayers
  /\ ~last.success

\* C12: for every request body of PUT /:id, confirmedPlayers, joinRequests
\* and currentPlayers of the game are the same after the update as before.
C12_UpdateKeepsRoster ==
  last.op = "update" =>
    /\ game.confirmedPlayers = prev.confirmedPlayers
    /\ game.joinRequests = prev.joinRequests
    /\ game.currentPlayers = prev.currentPlayers

\* C13: a game that is in_progress or completed is not modified by an update
\* or a cancel request, both are refused; for every other status a cancel
\* request by the host sets status to cancelled and changes no other field.
C13_StartedGameNotModified ==
  /\ (last.op \in {"update", "cancel"} /\ prev.status \in {"in_progress", "completed"})
       => (~last.success /\ game = prev)
  /\ (/\ last.op = "cancel"
      /\ last.userId = prev.hostId
      /\ prev.status \notin {"in_progress", "completed"})
       => (/\ last.success
           /\ game = [prev EXCEPT !.status = "cancelled"])

\* the host's cancel request was refused on a completed game with a player
C13_Witness ==
  /\ last.op = "cancel"
  /\ last.userId = prev.hostId
  /\ prev.status = "completed"
  /\ prev.confirmedPlayers # <<>>
  /\ ~last.success
  /\ game = prev

\* the day of the week of a date: 0 is Sunday, 6 is Saturday
DayOfWeek(date) == (EpochDay(date) + 4) % 7

\* C14: the amount stored by create-booking satisfies totalAmount * 60 =
\* (endMinutes - startMinutes) * rate, where rate is the turf's weekend rate
\* when the date is a Saturday or Sunday and a weekend rate is set, and the
\* hourly rate otherwise.
C14_AmountIsDurationTimesRate ==
  (last.op = "createBooking" /\ last.success) =>
    LET booking == bookings[Len(bookings)]
        prices == TurfPrices[booking.turfId]
        rate == IF DayOfWeek(booking.date) \in {0, 6} /\ prices.pricePerHourWeekend # 0
                THEN prices.pricePerHourWeekend ELSE prices.pricePerHour
    IN booking.totalAmount * 60
         = (timeToMinutes(booking.endTime) - timeToMinutes(booking.startTime)) * rate

\* C15: a create-booking request whose endTime is not later than its
\* startTime fails: no booking is stored and no amount is computed for it.
C15_InvalidIntervalRefused ==
  (/\ last.op = "createBooking"
   /\ "startTime" \in DOMAIN last
   /\ timeToMinutes(last.endTime) <= timeToMinutes(last.startTime))
    => (~last.success /\ bookings = NoBookings)

\* the one-hour slots [h:00, h+1:00) for h = 6..22
HourSlots == [h \in 1..17 |-> [startTime |-> HHMM(h + 5, 0), endTime |-> HHMM(h + 6, 0)]]

\* C16: getAvailableSlots returns exactly the one-hour slots for h = 6..22
\* that overlap no pending or confirmed booking of the turf and date: a slot
\* is returned if and only if checkAvailability for that slot is true.
C16_SlotsAreTheAvailableHours ==
  last.op = "getAvailableSlots" =>
    \A h \in 1..17 :
      (\E i \in 1..Len(last.slots) : last.slots[i] = HourSlots[h])
        <=> (IF last.model = "sqlite"
             THEN checkAvailability(bookings, last.turfId, last.date,
                                    HourSlots[h].startTime, HourSlots[h].endTime)
             ELSE checkAvailabilitySupabase(bookings, last.turfId, last.date,
                                            HourSlots[h].startTime, HourSlots[h].endTime))

\* C17: after a pending booking is created for every slot getAvailableSlots
\* returns, a new getAvailableSlots call for the same turf and date returns
\* the empty sequence.
C17_SlotRoundTrip ==
  (last.op = "getAvailableSlots" /\ last.booked) => last.slots = <<>>

\* the slots were recomputed after the returned slots were booked, on a table
\* that had a confirmed half-hour booking of that turf and date before
C17_Witness ==
  /\ last.op = "getAvailableSlots"
  /\ last.booked
  /\ last.slots = <<>>
  /\ Len(bookings) > 1
  /\ bookings[1].turfId = last.turfId
  /\ bookings[1].date = last.date
  /\ bookings[1].status = "confirmed"
  /\ bookings[1].startTime = HHMM(9, 30)
  /\ bookings[Len(bookings)].status = "pending"

(***************************************************************************)
(* Properties of concurrent joinGame calls.                                *)
(***************************************************************************)
\* two calls by different users loaded the same row of a public game and
\* both have written and returned success
BothJoinedFromOneSnapshot(c, d) ==
  /\ c # d
  /\ inflight[c].pc = "returned"
  /\ inflight[d].pc = "returned"
  /\ inflight[c].success
  /\ inflight[d].success
  /\ inflight[c].userId # inflight[d].userId
  /\ inflight[c].loaded = inflight[d].loaded
  /\ ~inflight[c].loaded.isPrivate

\* C18 as stated: two concurrent joinGame calls that loaded the same
\* snapshot leave the game with more confirmed players plus host than
\* maxPlayers.
C18_SameSnapshotExceedsCapacity ==
  \A c, d \in Calls :
    BothJoinedFromOneSnapshot(c, d)
      => Len(game.confirmedPlayers) + 1 > game.maxPlayers

\* C18 amended: in every interleaving of the loads and writes of concurrent
\* joinGame calls the confirmed players plus the host are at most
\* maxPlayers, also when two calls loaded the same snapshot: the later write
\* replaces the list of the earlier one.
C18_ConcurrentJoinsKeepCapacity ==
  /\ Len(game.confirmedPlayers) + 1 <= game.maxPlayers
  /\ \A c, d \in Calls :
       BothJoinedFromOneSnapshot(c, d)
         => Len(game.confirmedPlayers) = Len(inflight[c].loaded.confirmedPlayers) + 1

\* two calls loaded the same snapshot with one place left and both wrote
C18_Witness ==
  \E c, d \in Calls :
    /\ BothJoinedFromOneSnapshot(c, d)
    /\ inflight[c].loaded.currentPlayers + 1 = inflight[c].loaded.maxPlayers
    /\ Len(game.confirmedPlayers) + 1 = game.maxPlayers

\* C19: two concurrent joinGame calls by different users on a public game
\* can both return success while only one of the two users is in
\* confirmedPlayers afterwards: whenever both loaded the same snapshot, the
\* stored list is the loaded list with the user of the later write.
C19_SameSnapshotDropsAJoin ==
  \A c, d \in Calls :
    BothJoinedFromOneSnapshot(c, d)
      => /\ Includes(game.confirmedPlayers, inflight[c].userId)
              # Includes(game.confirmedPlayers, inflight[d].userId)
         /\ game.confirmedPlayers
              = Append(inflight[c].loaded.confirmedPlayers, last.userId)
         /\ last.userId \in {inflight[c].userId, inflight[d].userId}

\* both calls returned success and the user of the first write is not in
\* confirmedPlayers
C19_Witness ==
  \E c, d \in Calls :
    /\ BothJoinedFromOneSnapshot(c, d)
    /\ last.op = "joinGame"
    /\ last.userId = inflight[d].userId
    /\ ~Includes(game.confirmedPlayers, inflight[c].userId)
    /\ Includes(game.confirmedPlayers, inflight[d].userId)

\* the first check of joinGame that fails on the row g for the user, in the
\* order status, capacity, confirmedPlayers, joinRequests
FirstFailure(g, userId) ==
  IF g.status # "open" THEN "Game is not open for joining"
  ELSE IF g.currentPlayers >= g.maxPlayers THEN "Game is full"
  ELSE IF Includes(g.confirmedPlayers, userId) THEN "Already joined this game"
  ELSE IF HasRequest(g.joinRequests, userId) THEN "Join request already pending"
  ELSE "none"

\* C20: joinGame checks status, capacity, confirmedPlayers and joinRequests
\* in this order and reports the first check that fails, so a confirmed user
\* of an open game at capacity is refused as game full; in every failure case
\* nothing is written.
C20_FirstFailingPreconditionWins ==
  last.op = "joinGame" =>
    /\ last.success <=> FirstFailure(prev, last.userId) = "none"
    /\ ~last.success =>
         (last.message = FirstFailure(prev, last.userId) /\ game = prev)
    /\ (/\ prev.status = "open"
        /\ prev.currentPlayers >= prev.maxPlayers
        /\ Includes(prev.confirmedPlayers, last.userId))
         => (~last.success /\ last.message = "Game is full")

\* a confirmed player of an open game at capacity was refused as game full
C20_Witness ==
  /\ last.op = "joinGame"
  /\ prev.status = "open"
  /\ prev.currentPlayers >= prev.maxPlayers
  /\ Includes(prev.confirmedPlayers, last.userId)
  /\ last.message = "Game is full"
  /\ game = prev

(***************************************************************************)
(* Further properties of the membership calls.                             *)
(***************************************************************************)
\* C21: leaveGame changes status only from full to open and only when a
\* confirmed player is removed: when the leaving user was only in
\* joinRequests, or the status before the call is not full, the status after
\* a successful leaveGame equals the status before it.
C21_LeaveOnlyReopensFullGame ==
  (last.op = "leaveGame" /\ last.success) =>
    \/ game.status = prev.status
    \/ /\ prev.status = "full"
       /\ game.status = "open"
       /\ Includes(prev.confirmedPlayers, last.userId)

\* C22: respondToJoinRequest with approve = false by the host, for a user
\* with a pending request, removes that request and changes nothing else:
\* the other requests keep their order and every other field is as before.
C22_DeclineRemovesRequestOnly ==
  (/\ last.op = "respondToJoinRequest"
   /\ ~last.approve
   /\ last.userId = prev.hostId
   /\ HasRequest(prev.joinRequests, last.targetId))
    => /\ last.success
       /\ \E i \in 1..Len(prev.joinRequests) :
            /\ prev.joinRequests[i].userId = last.targetId
            /\ game.joinRequests
                 = SubSeq(prev.joinRequests, 1, i - 1)
                     \o SubSeq(prev.joinRequests, i + 1, Len(prev.joinRequests))
       /\ game = [prev EXCEPT !.joinRequests = game.joinRequests]

\* the host declined one of two pending requests of a game with a confirmed
\* player, and the other request is still there
C22_Witness ==
  /\ last.op = "respondToJoinRequest"
  /\ ~last.approve
  /\ last.success
  /\ Len(prev.joinRequests) = 2
  /\ prev.joinRequests[1].userId = last.targetId
  /\ prev.confirmedPlayers # <<>>
  /\ game.joinRequests = <<prev.joinRequests[2]>>

\* C23: respondToJoinRequest with approve = true on a game whose confirmed
\* players plus host have reached maxPlayers returns the game-full failure
\* and leaves the game unchanged.
C23_ApproveOnFullGameRefused ==
  (/\ last.op = "respondToJoinRequest"
   /\ last.approve
   /\ last.userId = prev.hostId
   /\ HasRequest(prev.joinRequests, last.targetId)
   /\ Len(prev.confirmedPlayers) + 1 >= prev.maxPlayers)
    => (/\ ~last.success
        /\ last.message = "Game is full"
        /\ game = prev
        /\ HasRequest(game.joinRequests, last.targetId)
        /\ ~Includes(game.confirmedPlayers, last.targetId))

\* the host's approval was refused as game full and the request is kept
C23_Witness ==
  /\ last.op = "respondToJoinRequest"
  /\ last.approve
  /\ last.userId = prev.hostId
  /\ HasRequest(prev.joinRequests, last.targetId)
  /\ Len(prev.confirmedPlayers) + 1 = prev.maxPlayers
  /\ last.message = "Game is full"
  /\ HasRequest(game.joinRequests, last.targetId)

\* C24: after every successful joinGame, leaveGame and
\* respondToJoinRequest call, also when the load and write steps of
\* concurrent calls interleave, currentPlayers equals len(confirmedPlayers)
\* + 1.
C24_CurrentPlayersCountsConfirmed ==
  game.currentPlayers = Len(game.confirmedPlayers) + 1

\* a joinGame wrote a list over a row that another call had changed since
\* the joinGame loaded it
C24_Witness ==
  /\ last.op = "joinGame"
  /\ last.success
  /\ \E c \in Calls :
       /\ inflight[c].pc = "returned"
       /\ inflight[c].op = "joinGame"
       /\ inflight[c].userId = last.userId
       /\ inflight[c].stale
  /\ prev.confirmedPlayers # <<>>
  /\ game.confirmedPlayers # prev.confirmedPlayers
  /\ game.currentPlayers = Len(game.confirmedPlayers) + 1

\* C25: a user id is added to joinRequests only when the game's status is
\* open and the confirmed players plus host are below maxPlayers at the time
\* of the call, for the private branch of joinGame and for
\* createJoinRequest.
C25_RequestsOnlyWhileOpenWithPlaces ==
  (/\ last.op \in {"joinGame", "createJoinRequest"}
   /\ last.success
   /\ HasRequest(game.joinRequests, last.userId)
   /\ ~HasRequest(prev.joinRequests, last.userId))
    => (/\ prev.status = "open"
        /\ Len(prev.confirmedPlayers) + 1 < prev.maxPlayers)

\* C26: after every call in any sequence of the six membership methods, one
\* at a time from empty lists, each user id occurs at most once in
\* confirmedPlayers and at most once in joinRequests.
C26_NoDuplicateIds ==
  /\ \A i, j \in 1..Len(game.confirmedPlayers) :
       i # j => game.confirmedPlayers[i] # game.confirmedPlayers[j]
  /\ \A i, j \in 1..Len(game.joinRequests) :
       i # j => game.joinRequests[i].userId # game.joinRequests[j].userId

\* a second request of a user whose request is pending was refused, on a
\* game that has a confirmed player
C26_Witness ==
  /\ last.op = "createJoinRequest"
  /\ ~last.success
  /\ last.message = "Join request already pending"
  /\ HasRequest(game.joinRequests, last.userId)
  /\ game.confirmedPlayers # <<>>

\* C27: in any sequence of joinGame, createJoinRequest and acceptRequest
\* calls on a game with fixed maxPlayers, the confirmed players plus the
\* host are at most maxPlayers after every acceptRequest.
C27_AcceptKeepsCapacity ==
  last.op = "acceptRequest" => Len(game.confirmedPlayers) + 1 <= game.maxPlayers

\* C28: no user id is in confirmedPlayers and in joinRequests at the same
\* time in any state reachable when the load and write steps of concurrent
\* joinGame, leaveGame and respondToJoinRequest calls interleave.
C28_NoDoubleMembershipWhenInterleaved ==
  \A userId \in Users :
    Includes(game.confirmedPlayers, userId) => ~HasRequest(game.joinRequests, userId)

\* C29: once a cancel request has set the status to cancelled, the status
\* stays cancelled under every later or concurrently running joinGame,
\* leaveGame and respondToJoinRequest.
C29_CancelledStaysCancelled ==
  (\E c \in Calls : /\ inflight[c].pc = "returned"
                     /\ inflight[c].op = "cancel"
                     /\ inflight[c].success)
    => game.status = "cancelled"

\* C30: GET /:id returns a private game if and only if the caller is
\* authenticated and is the host, a confirmed player or a user with a
\* pending join request; a public game is returned to every caller.
C30_PrivateGameVisibleToParticipants ==
  last.op = "getGame" =>
    (last.success <=>
       \/ ~prev.isPrivate
       \/ /\ last.userId # Anonymous
          /\ \/ prev.hostId = last.userId
             \/ Includes(prev.confirmedPlayers, last.userId)
             \/ HasRequest(prev.joinRequests, last.userId))

====
